---------------------------- MODULE Spec2Model ----------------------------
(***************************************************************************)
(* Model of the bandai-manuals listing walker (scrape_bandai.ts), its      *)
(* upsert sink (bandai.manuals), the path resolver (paths.ts) and the      *)
(* DB-driven download orchestrator (download_from_db.ts).                  *)
(*                                                                         *)
(* Strings the code inspects character by character (names, hrefs) are     *)
(* sequences of one-character strings; a file system path is a record      *)
(* [kind, segs] with kind "abs" | "rel" | "null" (SQL NULL) and segs the   *)
(* sequence of its segments.  The disk is the set of regular files that    *)
(* exist (files) and the subset whose content is an unfinished stream      *)
(* (partials).  The table is the sequence of its rows in key order;       *)
(* updated_at / created_at are not modelled.                              *)
(***************************************************************************)
EXTENDS Integers, Sequences, FiniteSets, TLC

VARIABLES
    store,      \* bandai.manuals: the rows of the table
    files,      \* absolute paths (segment sequences) of the files on disk
    partials,   \* the files whose write stream did not finish
    netCalls,   \* manual ids for which this process called http.download
    wpc,        \* walker: position of main() in scrape_bandai.ts
    page,       \* walker: let page
    total,      \* walker: let total
    requested,  \* walker: page numbers passed to scrapePage, in order
    inflight,   \* walker: page fetches issued and not yet answered
    items,      \* walker: items of the page being processed
    finalPageParam, \* walker: page parameter of the last response's final URL
    err,        \* walker: the error main().catch received, "none" so far
    idx,        \* walker: number of items of the page already upserted
    wtask,      \* walker: state of the page's inline download tasks
    dlFlag,     \* walker: DOWNLOAD_FLAG
    dlLimit,    \* walker: the limit of pLimit(DL_CONCURRENCY)
    onlyMissing,\* orchestrator: ONLY_MISSING
    dpc,        \* orchestrator: position of main() in download_from_db.ts
    rows,       \* orchestrator: the rows selectRows returned
    dtask,      \* orchestrator: state of each row's task
    done,       \* orchestrator: let done
    changed,    \* orchestrator: let changed
    dbFailed,   \* orchestrator: a database call of this run has raised
    fn,         \* library call: the function called, "none" when there is none
    arg,        \* library call: its argument
    ret,        \* library call: <<>> until it returns, then <<the value returned>>
    cpc,        \* crawler: where crawl() stands
    maxPages,   \* crawler: cfg.maxPages
    q,          \* crawler: const q
    seen,       \* crawler: const seen
    all,        \* crawler: const all
    manualPages, \* crawler: const manualPages
    pdfs,       \* crawler: const pdfs
    url,        \* crawler: const url of the iteration under way
    fetched,    \* crawler: the URLs handed to http.html, in order
    resp,       \* crawler: how the last http.html call ended: "page" or "error"
    result,     \* crawler: <<>> until crawl() returns, then <<the CrawlResult>>
    checkedOut, \* pool: the clients checked out
    wc          \* withClient: each call's position, client, release count and error

vars == <<store, files, partials, netCalls, wpc, page, total, requested, inflight,
          items, finalPageParam, err, idx, wtask, dlFlag, dlLimit,
          onlyMissing, dpc, rows, dtask, done, changed, dbFailed, fn, arg, ret,
          cpc, maxPages, q, seen, all, manualPages, pdfs, url, fetched, resp, result,
          checkedOut, wc>>

storeVars == <<store, files, partials, netCalls>>
walkerVars == <<wpc, page, total, requested, inflight, items, finalPageParam, err, idx,
                wtask, dlFlag, dlLimit>>
dbVars == <<onlyMissing, dpc, rows, dtask, done, changed, dbFailed>>
libVars == <<fn, arg, ret>>
\* what neither the walker nor the orchestrator touches
crawlVars == <<cpc, maxPages, q, seen, all, manualPages, pdfs, url, fetched, resp, result>>
poolVars == <<checkedOut, wc>>
auxVars == <<libVars, crawlVars, poolVars>>

---------------------------------------------------------------------------
(* Bounds of the model *)

\* configured maximum page count (env MAX_PAGES), kept small
MAX_PAGES == 1
\* longest listing page, in raw result elements
MaxItems == 2

\* the walker's page counter is explored up to here
PageCap == MAX_PAGES + 1

---------------------------------------------------------------------------
(* node:path over segment sequences *)

Last(s) == s[Len(s)]
Front(s) == SubSeq(s, 1, Len(s) - 1)

RECURSIVE NormSegs(_, _, _)
\* path.normalize: "." dropped, ".." pops a segment (kept when a relative
\* path has nothing left to pop, dropped at the root of an absolute one)
NormSegs(acc, segs, isAbs) ==
    IF segs = <<>> THEN acc
    ELSE LET h == Head(segs) t == Tail(segs) IN
         IF h = "." THEN NormSegs(acc, t, isAbs)
         ELSE IF h = ".." THEN
             IF acc # <<>> /\ Last(acc) # ".." THEN NormSegs(Front(acc), t, isAbs)
             ELSE IF isAbs THEN NormSegs(acc, t, isAbs)
             ELSE NormSegs(Append(acc, ".."), t, isAbs)
         ELSE NormSegs(Append(acc, h), t, isAbs)

AbsPath(segs) == [kind |-> "abs", segs |-> segs]
RelPath(segs) == [kind |-> "rel", segs |-> segs]
NullPath == [kind |-> "null", segs |-> <<>>]

\* process.cwd()
Cwd == AbsPath(<<"app">>)
\* process.env.FILES_ROOT || 'downloads'
FILES_ROOT == RelPath(<<"downloads">>)
\* process.env.SUBDIR || 'manuals'
SUBDIR == RelPath(<<"manuals">>)

isAbsolute(p) == p.kind = "abs"

\* path.resolve(base, p) for an absolute base
resolve(base, p) ==
    IF isAbsolute(p) THEN AbsPath(NormSegs(<<>>, p.segs, TRUE))
    ELSE AbsPath(NormSegs(<<>>, base.segs \o p.segs, TRUE))

filesRoot == resolve(Cwd, FILES_ROOT)

absFromRel(rel) == resolve(filesRoot, rel)

RECURSIVE CommonLen(_, _)
CommonLen(a, b) ==
    IF a # <<>> /\ b # <<>> /\ Head(a) = Head(b)
    THEN 1 + CommonLen(Tail(a), Tail(b)) ELSE 0

\* path.relative(from, to), both resolved first
relative(from, to) ==
    LET f == resolve(Cwd, from).segs
        t == resolve(Cwd, to).segs
        n == CommonLen(f, t)
    IN RelPath([i \in 1..(Len(f) - n) |-> ".."] \o SubSeq(t, n + 1, Len(t)))

\* mutant: the path is handed back as it came
relFromAbs_KeepsAbsolute(absPath) == absPath

relFromAbs(absPath) == relative(filesRoot, absPath)

\* path.join(filesRoot(), ...parts)
joinFiles(part) == AbsPath(NormSegs(<<>>, filesRoot.segs \o part.segs, TRUE))

OUT_DIR == joinFiles(SUBDIR)

\* String.prototype.startsWith('..') on the rendered relative path
StartsWithDotDot(p) == p.segs # <<>> /\ Head(p.segs) \in {"..", "..old"}

existsSync(p) == p.segs \in files

---------------------------------------------------------------------------
(* utils.ts: sanitizeFilename over character sequences *)

Hostile == {"/", ":", "*", "?", "\"", "<", ">", "|"}
Space == {" ", "\t"}

RECURSIVE ReplaceHostile(_)
ReplaceHostile(s) ==
    IF s = <<>> THEN <<>>
    ELSE <<IF Head(s) \in Hostile THEN "-" ELSE Head(s)>> \o ReplaceHostile(Tail(s))

RECURSIVE CollapseSpace(_)
\* replace(/\s+/g, ' ')
CollapseSpace(s) ==
    IF s = <<>> THEN <<>>
    ELSE IF Head(s) \in Space
         THEN IF Tail(s) # <<>> /\ Head(Tail(s)) \in Space
              THEN CollapseSpace(Tail(s))
              ELSE <<" ">> \o CollapseSpace(Tail(s))
         ELSE <<Head(s)>> \o CollapseSpace(Tail(s))

RECURSIVE TrimLeft(_)
TrimLeft(s) == IF s # <<>> /\ Head(s) \in Space THEN TrimLeft(Tail(s)) ELSE s
RECURSIVE TrimRight(_)
TrimRight(s) == IF s # <<>> /\ Last(s) \in Space THEN TrimRight(Front(s)) ELSE s
Trim(s) == TrimRight(TrimLeft(s))

sanitizeFilename(input) ==
    LET base == Trim(CollapseSpace(ReplaceHostile(input)))
    IN IF base # <<>> THEN base ELSE <<"f", "i", "l", "e">>

textClean(s) == Trim(CollapseSpace(s))

RECURSIVE Str(_)
\* a character sequence as one string
Str(s) == IF s = <<>> THEN "" ELSE Head(s) \o Str(Tail(s))

Manual == <<"m", "a", "n", "u", "a", "l">>

---------------------------------------------------------------------------
(* scrape_bandai.ts: extraction of one listing page *)

\* new URL(LIST_URL).origin
LIST_ORIGIN == "https://manual.bandai-hobby.net"

Digits == {"0", "1", "2", "3", "4", "5", "6", "7", "8", "9"}
DigitVal(c) == CASE c = "0" -> 0 [] c = "1" -> 1 [] c = "2" -> 2 [] c = "3" -> 3
                 [] c = "4" -> 4 [] c = "5" -> 5 [] c = "6" -> 6 [] c = "7" -> 7
                 [] c = "8" -> 8 [] c = "9" -> 9

RECURSIVE DropNonDigits(_)
DropNonDigits(s) == IF s # <<>> /\ Head(s) \notin Digits THEN DropNonDigits(Tail(s)) ELSE s
RECURSIVE TakeDigits(_)
TakeDigits(s) == IF s # <<>> /\ Head(s) \in Digits THEN <<Head(s)>> \o TakeDigits(Tail(s)) ELSE <<>>

\* href.match(/(\d+)(?:[^\d]|$)/): the first run of digits, <<>> when there is none
idMatch(href) == TakeDigits(DropNonDigits(href))

RECURSIVE parseInt(_)
\* parseInt(digits, 10)
parseInt(ds) == IF ds = <<>> THEN 0 ELSE 10 * parseInt(Front(ds)) + DigitVal(Last(ds))

\* absoluteToManualSite(href) for a root-relative href
absoluteToManualSite(href) == LIST_ORIGIN \o href

\* 'x'.toUpperCase() for the letters of the modelled names
toUpperCase1(c) ==
    CASE c = "c" -> "C" [] c = "g" -> "G" [] c = "h" -> "H" [] c = "m" -> "M"
      [] c = "p" -> "P" [] c = "u" -> "U" [] c = "z" -> "Z" [] OTHER -> c

RECURSIVE toUpperCase(_)
\* s.toUpperCase()
toUpperCase(s) == IF s = <<>> THEN <<>> ELSE <<toUpperCase1(Head(s))>> \o toUpperCase(Tail(s))

\* upper.startsWith(c)
startsWith(s, c) == Len(c) <= Len(s) /\ SubSeq(s, 1, Len(c)) = c

\* const candidates = [...]
candidates ==
    << <<"P", "G">>, <<"M", "G">>, <<"R", "G">>, <<"H", "G">>, <<"E", "G">>, <<"S", "D">>,
       <<"F", "M">>, <<"R", "E", "/", "1", "0", "0">>, <<"3", "0", "M", "M">>,
       <<"3", "0", "M", "S">>,
       <<"E", "N", "T", "R", "Y", " ", "G", "R", "A", "D", "E">>,
       <<"H", "G", "U", "C">>, <<"H", "G", "B", "F">>, <<"H", "G", "C", "E">>,
       <<"H", "G", "B", "C">> >>

RECURSIVE UpTo(_, _)
\* s.split(c)[0]: the characters before the first c
UpTo(s, c) == IF s = <<>> \/ Head(s) = c THEN <<>> ELSE <<Head(s)>> \o UpTo(Tail(s), c)

\* inferGrade with the fallback token taken from the name as written
inferGrade_KeepsCase(nameEn, nameJp) ==
    LET src == Trim(IF nameEn # <<>> THEN nameEn ELSE nameJp)
        upper == toUpperCase(src)
        hits == {k \in DOMAIN candidates : startsWith(upper, candidates[k])}
    IN IF src = <<>> THEN <<>>
       ELSE IF hits # {} THEN candidates[CHOOSE k \in hits : \A j \in hits : k <= j]
       ELSE UpTo(src, " ")

\* inferGrade(nameEn, nameJp); <<>> is null (and '' where a name is expected)
inferGrade(nameEn, nameJp) ==
    LET src == Trim(IF nameEn # <<>> THEN nameEn ELSE nameJp)
        upper == toUpperCase(src)
        hits == {k \in DOMAIN candidates : startsWith(upper, candidates[k])}
    IN IF src = <<>> THEN <<>>
       ELSE IF hits # {} THEN candidates[CHOOSE k \in hits : \A j \in hits : k <= j]
       ELSE UpTo(upper, " ")

\* the characters U+5E74, U+6708 and U+65E5 of a Japanese date
Nen == "nen"
Gatsu == "gatsu"
Nichi == "nichi"

\* \d{k} matches at i
DigitsAt(s, i, k) == i >= 1 /\ i + k - 1 <= Len(s) /\ \A j \in i..(i + k - 1) : s[j] \in Digits

\* one character of the set cs stands at i
CharAt(s, i, cs) == i >= 1 /\ i <= Len(s) /\ s[i] \in cs

RECURSIVE SkipSpace(_, _)
\* \s* from i: the position after the white space
SkipSpace(s, i) == IF CharAt(s, i, Space) THEN SkipSpace(s, i + 1) ELSE i

\* (\d{1,2}) at i followed by one character of cs: the length matched, the longer
\* one first, 0 when neither does
DigitsThen(s, i, cs) ==
    IF DigitsAt(s, i, 2) /\ CharAt(s, i + 2, cs) THEN 2
    ELSE IF DigitsAt(s, i, 1) /\ CharAt(s, i + 1, cs) THEN 1
    ELSE 0

\* /(\d{4})nen\s*(\d{1,2})gatsu(?:\s*(\d{1,2})nichi)?/ tried at position i; the
\* groups, group 3 being <<>> when the optional part does not take part
JpAt(s, i) ==
    LET j == SkipSpace(s, i + 5)
        k == DigitsThen(s, j, {Gatsu})
        j2 == SkipSpace(s, j + k + 1)
        k2 == DigitsThen(s, j2, {Nichi})
    IN IF DigitsAt(s, i, 4) /\ CharAt(s, i + 4, {Nen}) /\ k > 0
       THEN <<SubSeq(s, i, i + 3), SubSeq(s, j, j + k - 1),
              IF k2 > 0 THEN SubSeq(s, j2, j2 + k2 - 1) ELSE <<>> >>
       ELSE <<>>

\* /(\d{4})[-/](\d{1,2})[-/](\d{1,2})/ tried at position i
IsoAt(s, i) ==
    LET j == i + 5
        k == DigitsThen(s, j, {"-", "/"})
        j2 == j + k + 1
        k2 == IF DigitsAt(s, j2, 2) THEN 2 ELSE IF DigitsAt(s, j2, 1) THEN 1 ELSE 0
    IN IF DigitsAt(s, i, 4) /\ CharAt(s, i + 4, {"-", "/"}) /\ k > 0 /\ k2 > 0
       THEN <<SubSeq(s, i, i + 3), SubSeq(s, j, j + k - 1), SubSeq(s, j2, j2 + k2 - 1)>>
       ELSE <<>>

\* raw.match(re): the groups of the leftmost match, <<>> when there is none
MatchJp(s) ==
    LET at == {i \in 1..Len(s) : JpAt(s, i) # <<>>}
    IN IF at = {} THEN <<>> ELSE JpAt(s, CHOOSE i \in at : \A j \in at : i <= j)

MatchIso(s) ==
    LET at == {i \in 1..Len(s) : IsoAt(s, i) # <<>>}
    IN IF at = {} THEN <<>> ELSE IsoAt(s, CHOOSE i \in at : \A j \in at : i <= j)

isLeapYear(y) == (y % 4 = 0 /\ y % 100 # 0) \/ y % 400 = 0

\* the days of month m (1..12) of year y
DaysInMonth(y, m) ==
    IF m = 2 THEN (IF isLeapYear(y) THEN 29 ELSE 28)
    ELSE IF m \in {4, 6, 9, 11} THEN 30 ELSE 31

RECURSIVE MakeDate(_, _, _)
\* the calendar date that day d of month m of year y denotes, d running over
\* the ends of the month
MakeDate(y, m, d) ==
    IF d < 1
    THEN IF m = 1 THEN MakeDate(y - 1, 12, d + 31)
         ELSE MakeDate(y, m - 1, d + DaysInMonth(y, m - 1))
    ELSE IF d > DaysInMonth(y, m)
    THEN IF m = 12 THEN MakeDate(y + 1, 1, d - 31)
         ELSE MakeDate(y, m + 1, d - DaysInMonth(y, m))
    ELSE [fullYear |-> y, month |-> m - 1, date |-> d]

\* new Date(Date.UTC(year, monthIndex, day)): Date.UTC reads a year of 0..99 as
\* 1900 + year
DateUTC(year, monthIndex, day) ==
    MakeDate(IF year \in 0..99 THEN 1900 + year ELSE year, monthIndex + 1, day)

RECURSIVE String(_)
\* String(n) for a natural number n
String(n) ==
    LET c == CHOOSE c \in Digits : DigitVal(c) = n % 10
    IN IF n < 10 THEN <<c>> ELSE String(n \div 10) \o <<c>>

RECURSIVE padStart(_, _, _)
\* s.padStart(w, c)
padStart(s, w, c) == IF Len(s) >= w THEN s ELSE padStart(<<c>> \o s, w, c)

\* parseReleaseDate(text); a date of <<>> is null
parseReleaseDate(text) ==
    LET raw == textClean(text)
        m == IF MatchJp(raw) # <<>> THEN MatchJp(raw) ELSE MatchIso(raw)
        y == parseInt(m[1])
        mo == parseInt(m[2])
        d == parseInt(m[3])
        dt == DateUTC(y, mo - 1, d)
        none == [date |-> <<>>, raw |-> raw]
    IN IF m = <<>> THEN none
       ELSE IF ~(mo >= 1 /\ mo <= 12) THEN none
       ELSE IF m[3] # <<>> /\ dt.fullYear = y /\ dt.month = mo - 1 /\ dt.date = d
            THEN [date |-> String(y) \o <<"-">> \o padStart(String(mo), 2, "0") \o <<"-">>
                              \o padStart(String(d), 2, "0"),
                  raw |-> raw]
       ELSE none

\* one div.bl_result_item -> Item (the element has an id); a name of <<>> is null
ItemOf(el) ==
    LET manualId == parseInt(idMatch(el.href))
        nameEn == textClean(el.nameEn)
        nameJp == textClean(el.nameJp)
    IN [manualId |-> manualId,
        detailPath |-> Str(el.href),
        detailUrl |-> absoluteToManualSite(Str(el.href)),
        pdfUrl |-> absoluteToManualSite("/pdf/" \o ToString(manualId) \o ".pdf"),
        nameJp |-> nameJp,
        nameEn |-> nameEn,
        grade |-> inferGrade(nameEn, nameJp),
        releaseDate |-> parseReleaseDate(textClean(el.dateText)).date,
        releaseDateText |-> textClean(el.dateText)]

\* the loop ending at the first element without an id
RECURSIVE ScrapeItems_StopsAtMiss(_)
ScrapeItems_StopsAtMiss(els) ==
    IF els = <<>> THEN <<>>
    ELSE IF idMatch(Head(els).href) = <<>> THEN <<>>
         ELSE <<ItemOf(Head(els))>> \o ScrapeItems_StopsAtMiss(Tail(els))

RECURSIVE ScrapeItems(_)
\* the .each() loop of scrapePage: elements without an id are passed over
ScrapeItems(els) ==
    IF els = <<>> THEN <<>>
    ELSE IF idMatch(Head(els).href) = <<>> THEN ScrapeItems(Tail(els))
         ELSE <<ItemOf(Head(els))>> \o ScrapeItems(Tail(els))

\* the result elements a listing page of the modelled site can hold
RawUniverse ==
    { [href |-> <<"/menus/detail/", "1">>, nameEn |-> <<"H", "/", "G">>, nameJp |-> <<>>,
       dateText |-> <<>>],
      [href |-> <<"/menus/detail/", "0", "1">>, nameEn |-> <<"H", ":", "G", " ">>,
       nameJp |-> <<"a">>, dateText |-> <<"2", "0", "2", "4">>],
      [href |-> <<"/menus/detail/", "2">>, nameEn |-> <<"H", "/", "G">>, nameJp |-> <<>>,
       dateText |-> <<>>],
      [href |-> <<>>, nameEn |-> <<"H", "/", "G">>, nameJp |-> <<>>, dateText |-> <<>>] }

RawPages == UNION { [1..n -> RawUniverse] : n \in 0..MaxItems }

\* finalPageParam: the page parameter of the final URL, 0 standing for null
NoPage == 0

---------------------------------------------------------------------------
(* bandai.manuals and the statements run against it *)

RowOf(it, localPath) ==
    [manual_id |-> it.manualId, detail_path |-> it.detailPath, detail_url |-> it.detailUrl,
     pdf_url |-> it.pdfUrl, name_jp |-> it.nameJp, name_en |-> it.nameEn,
     grade |-> it.grade, release_date |-> it.releaseDate,
     release_date_text |-> it.releaseDateText, pdf_local_path |-> localPath]

\* PRIMARY KEY (manual_id) and UNIQUE (pdf_url)
TableOk(st) ==
    \A i \in DOMAIN st, j \in DOMAIN st :
        (st[i].manual_id = st[j].manual_id \/ st[i].pdf_url = st[j].pdf_url) => i = j

\* a new row takes its place in primary key order
InsertRow(st, row) ==
    LET n == Cardinality({i \in DOMAIN st : st[i].manual_id <= row.manual_id})
    IN SubSeq(st, 1, n) \o <<row>> \o SubSeq(st, n + 1, Len(st))

\* mutant: a plain INSERT, no ON CONFLICT clause
UpsertRows_PlainInsert(st, it) == InsertRow(st, RowOf(it, NullPath))

\* mutant: the conflicting row is replaced whole, pdf_local_path included
UpsertRows_ResetsPath(st, it) ==
    IF \E i \in DOMAIN st : st[i].manual_id = it.manualId
    THEN [i \in DOMAIN st |->
            IF st[i].manual_id = it.manualId THEN RowOf(it, NullPath) ELSE st[i]]
    ELSE InsertRow(st, RowOf(it, NullPath))

\* INSERT ... ON CONFLICT (manual_id) DO UPDATE SET <every column but pdf_local_path>
UpsertRows(st, it) ==
    IF \E i \in DOMAIN st : st[i].manual_id = it.manualId
    THEN [i \in DOMAIN st |->
            IF st[i].manual_id = it.manualId THEN RowOf(it, st[i].pdf_local_path) ELSE st[i]]
    ELSE InsertRow(st, RowOf(it, NullPath))

\* the statement raises when the resulting table would break a constraint
UpsertRaises(st, it) == ~TableOk(UpsertRows(st, it))

\* UPDATE bandai.manuals SET pdf_local_path = $2 WHERE manual_id = $1
SetLocalPathRows(st, manualId, localPath) ==
    [i \in DOMAIN st |->
        IF st[i].manual_id = manualId THEN [st[i] EXCEPT !.pdf_local_path = localPath] ELSE st[i]]

---------------------------------------------------------------------------
(* http.ts: HttpClient.download, shared by both programs *)

\* largest configured parseInt(process.env.DL_CONCURRENCY || '3', 10), kept small
DL_CONCURRENCY == 2

\* const fileStream = fs.createWriteStream(outPath): the file exists from here on
StreamOpen(p) ==
    /\ files' = files \cup {p.segs}
    /\ partials' = partials \cup {p.segs}

\* 'finish' resolves the promise: the file is complete unless another stream
\* still writes to the same path
StreamFinish(p, othersOpen) ==
    /\ partials' = IF othersOpen THEN partials ELSE partials \ {p.segs}
    /\ UNCHANGED files

\* 'error' rejects the promise: what was written stays on disk
StreamError(p) == UNCHANGED <<files, partials>>

---------------------------------------------------------------------------
(* scrape_bandai.ts: main() *)

\* `${it.manualId}-${sanitizeFilename(it.nameEn || it.nameJp || 'manual')}`
WalkerBase(it) ==
    <<ToString(it.manualId), "-">> \o
    sanitizeFilename(IF it.nameEn # <<>> THEN it.nameEn
                     ELSE IF it.nameJp # <<>> THEN it.nameJp ELSE Manual)

\* downloadIfNeeded: path.join(OUT_DIR, `${sanitizeFilename(baseName)}.pdf`)
WalkerOutPath(it) ==
    AbsPath(OUT_DIR.segs \o <<Str(sanitizeFilename(WalkerBase(it))) \o ".pdf">>)

WalkerRunning == {i \in DOMAIN wtask : wtask[i] \in {"mkdir", "waitnet", "stream", "persist"}}

\* total += items.length; page += 1; back to the head of the loop
WalkerAdvance ==
    /\ total' = total + Len(items)
    /\ page' = page + 1
    /\ wpc' = "loop"

\* mutant: the error is logged and the loop goes on
WalkerFail_Swallow(e) ==
    /\ wpc' = "loop"
    /\ err' = e

\* main() rejects with e: main().catch logs it and calls process.exit(1)
WalkerFail(e) ==
    /\ wpc' = "failed"
    /\ err' = e

\* mutant: the upserts are not awaited
AtLoopHead_NoAwait == wpc \in {"loop", "upsert"}

\* the head of while (true): the previous await has returned
AtLoopHead == wpc = "loop"

\* scrapePage(page) is called: http.htmlDetailed issues the request
WalkerRequest ==
    /\ AtLoopHead
    /\ page <= PageCap
    /\ requested' = Append(requested, page)
    /\ inflight' = inflight \cup {page}
    /\ wpc' = "fetching"
    /\ UNCHANGED <<storeVars, dbVars, page, total, items, finalPageParam, err, idx, wtask,
                   dlFlag, dlLimit, auxVars>>

\* the request fails after got's retries: scrapePage throws, main rejects
WalkerFetchFail ==
    /\ wpc = "fetching"
    /\ inflight' = inflight \ {page}
    /\ WalkerFail("fetch")
    /\ UNCHANGED <<storeVars, dbVars, page, total, requested, items, finalPageParam, idx,
                   wtask, dlFlag, dlLimit, auxVars>>

\* mutant: no break on zeroItems
WalkerDecide_NoEmptyStop(its, final) ==
    IF final # NoPage /\ final # page THEN "stopped_redirect" ELSE "upsert"

\* mutant: no break on a changed page parameter
WalkerDecide_NoRedirectStop(its, final) ==
    IF its = <<>> THEN "stopped_empty" ELSE "upsert"

\* the two breaks of main(): zeroItems first, then the redirect test
WalkerDecide(its, final) ==
    IF its = <<>> THEN "stopped_empty"
    ELSE IF final # NoPage /\ final # page THEN "stopped_redirect"
    ELSE "upsert"

\* after the upsert loop: the download tasks are created, or the page is done
WalkerAfterUpserts(its) ==
    IF dlFlag /\ its # <<>>
    THEN /\ wtask' = [i \in 1..Len(its) |->
                        IF i <= dlLimit THEN "mkdir" ELSE "queued"]
         /\ wpc' = "download"
         /\ UNCHANGED <<page, total>>
    ELSE /\ total' = total + Len(its)
         /\ page' = page + 1
         /\ wpc' = "loop"
         /\ wtask' = <<>>

\* the response arrives: extraction, then the two stop conditions; a page that
\* passes both goes to the upsert loop (which ends at once on no items)
WalkerFetchOk ==
    /\ wpc = "fetching"
    /\ \E raw \in RawPages, final \in {NoPage, page, page - 1} :
         /\ items' = ScrapeItems(raw)
         /\ finalPageParam' = final
         /\ LET to == WalkerDecide(items', final) IN
            IF to = "upsert" /\ items' = <<>> THEN WalkerAfterUpserts(items')
            ELSE /\ wpc' = to
                 /\ wtask' = <<>>
                 /\ UNCHANGED <<page, total>>
    /\ inflight' = inflight \ {page}
    /\ idx' = 0
    /\ UNCHANGED <<storeVars, dbVars, requested, err, dlFlag, dlLimit, auxVars>>

\* mutant: an upsert that raises is skipped and the loop goes on
WalkerUpsert_SkipsFailed ==
    /\ wpc = "upsert"
    /\ \E dbOk \in BOOLEAN :
         LET it == items[idx + 1] IN
         /\ store' = IF dbOk /\ ~UpsertRaises(store, it) THEN UpsertRows(store, it) ELSE store
         /\ idx' = idx + 1
         /\ IF idx' = Len(items) THEN WalkerAfterUpserts(items)
            ELSE UNCHANGED <<wpc, page, total, wtask>>
         /\ UNCHANGED err
    /\ UNCHANGED <<files, partials, netCalls, dbVars, requested, inflight, items,
                   finalPageParam, dlFlag, dlLimit, auxVars>>

\* one pass of `for (const it of items) await upsertItem(it)`
WalkerUpsert ==
    /\ wpc = "upsert"
    /\ \E dbOk \in BOOLEAN :
         LET it == items[idx + 1] IN
         IF dbOk /\ ~UpsertRaises(store, it)
         THEN /\ store' = UpsertRows(store, it)
              /\ idx' = idx + 1
              /\ IF idx' = Len(items) THEN WalkerAfterUpserts(items)
                 ELSE UNCHANGED <<wpc, page, total, wtask>>
              /\ UNCHANGED err
         ELSE /\ WalkerFail("db")
              /\ UNCHANGED <<store, idx, page, total, wtask>>
    /\ UNCHANGED <<files, partials, netCalls, dbVars, requested, inflight, items,
                   finalPageParam, dlFlag, dlLimit, auxVars>>

\* a task ends: p-limit starts the next queued one; after the last, Promise.all resolves
WalkerTaskEnds(i) ==
    LET ended == [wtask EXCEPT ![i] = "done"]
        queued == {j \in DOMAIN ended : ended[j] = "queued"}
    IN /\ wtask' = IF queued = {} THEN ended
                   ELSE [ended EXCEPT ![CHOOSE j \in queued : \A k \in queued : j <= k] = "mkdir"]
       /\ IF \A j \in DOMAIN ended : ended[j] = "done" THEN WalkerAdvance
          ELSE UNCHANGED <<wpc, page, total>>

\* downloadIfNeeded after its mkdir: skip when the file exists, else call http.download
WalkerTaskCheck(i) ==
    /\ wpc = "download"
    /\ wtask[i] = "mkdir"
    /\ IF existsSync(WalkerOutPath(items[i]))
       THEN /\ wtask' = [wtask EXCEPT ![i] = "persist"]
            /\ UNCHANGED netCalls
       ELSE /\ wtask' = [wtask EXCEPT ![i] = "waitnet"]
            /\ netCalls' = netCalls \cup {items[i].manualId}
    /\ UNCHANGED <<store, files, partials, dbVars, wpc, page, total, requested, inflight,
                   items, finalPageParam, err, idx, dlFlag, dlLimit, auxVars>>

\* http.download got its slot and opened the write stream
WalkerTaskStream(i) ==
    /\ wpc = "download"
    /\ wtask[i] = "waitnet"
    /\ StreamOpen(WalkerOutPath(items[i]))
    /\ wtask' = [wtask EXCEPT ![i] = "stream"]
    /\ UNCHANGED <<store, netCalls, dbVars, wpc, page, total, requested, inflight,
                   items, finalPageParam, err, idx, dlFlag, dlLimit, auxVars>>

\* the stream finished: saved = outPath, setLocalPath is called next
WalkerTaskSaved(i) ==
    /\ wpc = "download"
    /\ wtask[i] = "stream"
    /\ StreamFinish(WalkerOutPath(items[i]),
                    \E j \in DOMAIN wtask \ {i} :
                        wtask[j] = "stream" /\ WalkerOutPath(items[j]) = WalkerOutPath(items[i]))
    /\ wtask' = [wtask EXCEPT ![i] = "persist"]
    /\ UNCHANGED <<store, netCalls, dbVars, wpc, page, total, requested, inflight,
                   items, finalPageParam, err, idx, dlFlag, dlLimit, auxVars>>

\* the stream failed: downloadIfNeeded catches, returns null, the task ends
WalkerTaskFailed(i) ==
    /\ wpc = "download"
    /\ wtask[i] = "stream"
    /\ StreamError(WalkerOutPath(items[i]))
    /\ WalkerTaskEnds(i)
    /\ UNCHANGED <<store, netCalls, dbVars, requested, inflight, items, finalPageParam, err,
                   idx, dlFlag, dlLimit, auxVars>>

\* if (saved) await setLocalPath(it.manualId, relFromAbs(saved))
WalkerTaskPersist(i) ==
    /\ wpc = "download"
    /\ wtask[i] = "persist"
    /\ \E dbOk \in BOOLEAN :
         IF dbOk
         THEN /\ store' = SetLocalPathRows(store, items[i].manualId,
                                           relFromAbs(WalkerOutPath(items[i])))
              /\ WalkerTaskEnds(i)
              /\ UNCHANGED err
         ELSE /\ WalkerFail("db")
              /\ UNCHANGED <<store, wtask, page, total>>
    /\ UNCHANGED <<files, partials, netCalls, dbVars, requested, inflight, items,
                   finalPageParam, idx, dlFlag, dlLimit, auxVars>>

WalkerNext ==
    \/ WalkerRequest
    \/ WalkerFetchFail
    \/ WalkerFetchOk
    \/ WalkerUpsert
    \/ \E i \in DOMAIN wtask : WalkerTaskCheck(i)
    \/ \E i \in DOMAIN wtask : WalkerTaskStream(i)
    \/ \E i \in DOMAIN wtask : WalkerTaskSaved(i)
    \/ \E i \in DOMAIN wtask : WalkerTaskFailed(i)
    \/ \E i \in DOMAIN wtask : WalkerTaskPersist(i)

\* no library call is made
LibIdle ==
    /\ fn = "none"
    /\ arg = <<>>
    /\ ret = <<>>

\* no crawl is made
CrawlIdle ==
    /\ cpc = "idle"
    /\ maxPages = 0
    /\ q = <<>>
    /\ seen = {}
    /\ all = {}
    /\ manualPages = {}
    /\ pdfs = {}
    /\ url = <<>>
    /\ fetched = <<>>
    /\ resp = "none"
    /\ result = <<>>

\* no withClient call is made
PoolIdle ==
    /\ checkedOut = {}
    /\ wc = <<>>

AuxIdle == LibIdle /\ CrawlIdle /\ PoolIdle

DbIdle ==
    /\ onlyMissing = TRUE
    /\ dpc = "idle"
    /\ rows = <<>>
    /\ dtask = <<>>
    /\ done = 0
    /\ changed = 0
    /\ dbFailed = FALSE

WalkerInit ==
    /\ store = <<>>
    /\ files = {}
    /\ partials = {}
    /\ netCalls = {}
    /\ wpc = "loop"
    /\ page = 1
    /\ total = 0
    /\ requested = <<>>
    /\ inflight = {}
    /\ items = <<>>
    /\ finalPageParam = NoPage
    /\ err = "none"
    /\ idx = 0
    /\ wtask = <<>>
    /\ dlFlag \in BOOLEAN
    \* the configured limit matters only when downloads are on
    /\ dlLimit \in IF dlFlag THEN 1..DL_CONCURRENCY ELSE {DL_CONCURRENCY}
    /\ DbIdle
    /\ AuxIdle

Spec == WalkerInit /\ [][WalkerNext]_vars

---------------------------------------------------------------------------
(* download_from_db.ts *)

\* the orchestrator's own parseInt(process.env.DL_CONCURRENCY || '3', 10), kept small
DB_DL_CONCURRENCY == 2
\* rows of bandai.manuals at the start of a run
MaxRows == 3

\* `${r.manual_id}-${sanitizeFilename(r.name_en || r.name_jp || 'manual')}.pdf` under OUT_DIR
expectedOutPath(r) ==
    AbsPath(OUT_DIR.segs \o
            <<ToString(r.manual_id) \o "-" \o
              Str(sanitizeFilename(IF r.name_en # <<>> THEN r.name_en
                                   ELSE IF r.name_jp # <<>> THEN r.name_jp ELSE Manual))
              \o ".pdf">>)

\* if (r.pdf_local_path): null and '' are falsy
HasLocalPath(r) == r.pdf_local_path.kind # "null" /\ r.pdf_local_path.segs # <<>>

\* const abs2 = path.isAbsolute(dbPath) ? dbPath : path.resolve(dbPath)
LegacyAbs(dbPath) == IF isAbsolute(dbPath) THEN dbPath ELSE resolve(Cwd, dbPath)

\* mutant: every existing legacy path is taken to lie inside the root
InsideRoot_Always(abs2) == TRUE

\* !path.relative(filesRoot(), abs2).startsWith('..')
InsideRoot(abs2) == ~StartsWithDotDot(relative(filesRoot, abs2))

\* mutant: the expected file is not looked for before downloading
RowDecision_NoAdopt(r) ==
    LET dbPath == r.pdf_local_path
    IN IF HasLocalPath(r) /\ existsSync(absFromRel(dbPath)) THEN "skip"
       ELSE IF HasLocalPath(r) /\ existsSync(LegacyAbs(dbPath))
            THEN IF InsideRoot(LegacyAbs(dbPath)) THEN "heal" ELSE "skip"
       ELSE "download"

\* mutant: the stored path is not tried relative to the storage root
RowDecision_NoRootSkip(r) ==
    LET outPath == expectedOutPath(r)
        dbPath == r.pdf_local_path
    IN IF HasLocalPath(r) /\ existsSync(LegacyAbs(dbPath))
       THEN IF InsideRoot(LegacyAbs(dbPath)) THEN "heal" ELSE "skip"
       ELSE IF existsSync(outPath) THEN "adopt"
       ELSE "download"

\* mutant: a row with a stored path is never downloaded
RowDecision_SkipsDangling(r) ==
    LET outPath == expectedOutPath(r)
        dbPath == r.pdf_local_path
    IN IF HasLocalPath(r) /\ existsSync(LegacyAbs(dbPath)) /\ ~existsSync(absFromRel(dbPath))
       THEN IF InsideRoot(LegacyAbs(dbPath)) THEN "heal" ELSE "skip"
       ELSE IF HasLocalPath(r) THEN "skip"
       ELSE IF existsSync(outPath) THEN "adopt"
       ELSE "download"

\* the decision downloadRow takes after ensureDir, from the row as selected and the disk
RowDecision(r) ==
    LET outPath == expectedOutPath(r)
        dbPath == r.pdf_local_path
    IN IF HasLocalPath(r) /\ existsSync(absFromRel(dbPath)) THEN "skip"
       ELSE IF HasLocalPath(r) /\ existsSync(LegacyAbs(dbPath))
            THEN IF InsideRoot(LegacyAbs(dbPath)) THEN "heal" ELSE "skip"
       ELSE IF existsSync(outPath) THEN "adopt"
       ELSE "download"

\* WHERE pdf_url IS NOT NULL [AND (pdf_local_path IS NULL OR pdf_local_path = '')]
\* ORDER BY manual_id ASC (GRADE, IDS and LIMIT unset)
Selected(r) ==
    /\ r.pdf_url # ""
    /\ onlyMissing => (r.pdf_local_path.kind = "null" \/ r.pdf_local_path = RelPath(<<>>))

RECURSIVE FilterRows(_)
FilterRows(st) ==
    IF st = <<>> THEN <<>>
    ELSE IF Selected(Head(st)) THEN <<Head(st)>> \o FilterRows(Tail(st))
         ELSE FilterRows(Tail(st))

selectRows == FilterRows(store)

\* main().catch: process.exit(1)
DbFail == dpc' = "failed"

\* the tasks p-limit has started and that have not returned
DbRunning ==
    {i \in DOMAIN dtask :
        dtask[i] \in {"mkdir", "heal", "adopt", "waitnet", "stream", "persist"}}

\* mutant: every task is started at once
DbStart_NoLimit ==
    /\ dpc = "start"
    /\ rows' = selectRows
    /\ dtask' = [i \in 1..Len(rows') |-> "mkdir"]
    /\ dpc' = IF rows' = <<>> THEN "finished" ELSE "running"
    /\ UNCHANGED <<storeVars, walkerVars, auxVars, onlyMissing, done, changed, dbFailed>>

\* const rows = await selectRows(); rows.map((r) => limit(...)): p-limit starts
\* the first DL_CONCURRENCY tasks, each up to its await ensureDir
DbStart ==
    /\ dpc = "start"
    /\ \E dbOk \in BOOLEAN :
         IF dbOk
         THEN /\ rows' = selectRows
              /\ dtask' = [i \in 1..Len(rows') |->
                             IF i <= DB_DL_CONCURRENCY THEN "mkdir" ELSE "queued"]
              /\ dpc' = IF rows' = <<>> THEN "finished" ELSE "running"
              /\ UNCHANGED dbFailed
         ELSE /\ DbFail
              /\ dbFailed' = TRUE
              /\ UNCHANGED <<rows, dtask>>
    /\ UNCHANGED <<storeVars, walkerVars, auxVars, onlyMissing, done, changed>>

\* mutant: Promise.all resolves as soon as no task is queued
DbTaskEnds_EarlyFinish(i, ok) ==
    LET ended == [dtask EXCEPT ![i] = "done"]
        queued == {j \in DOMAIN ended : ended[j] = "queued"}
    IN /\ dtask' = IF queued = {} THEN ended
                   ELSE [ended EXCEPT ![CHOOSE j \in queued : \A k \in queued : j <= k] = "mkdir"]
       /\ changed' = IF ok THEN changed + 1 ELSE changed
       /\ done' = done + 1
       /\ dpc' = IF queued = {} THEN "finished" ELSE dpc

\* a task returns ok: changed/done are counted, p-limit starts the next queued
\* task, and after the last one Promise.all resolves
DbTaskEnds(i, ok) ==
    LET ended == [dtask EXCEPT ![i] = "done"]
        queued == {j \in DOMAIN ended : ended[j] = "queued"}
    IN /\ dtask' = IF queued = {} THEN ended
                   ELSE [ended EXCEPT ![CHOOSE j \in queued : \A k \in queued : j <= k] = "mkdir"]
       /\ changed' = IF ok THEN changed + 1 ELSE changed
       /\ done' = done + 1
       /\ dpc' = IF \A j \in DOMAIN ended : ended[j] = "done" THEN "finished" ELSE dpc

\* downloadRow after ensureDir: the existence tests, up to the next await
DbTaskCheck(i) ==
    /\ dpc = "running"
    /\ dtask[i] = "mkdir"
    /\ LET to == RowDecision(rows[i]) IN
       IF to = "skip"
       THEN /\ DbTaskEnds(i, FALSE)
            /\ UNCHANGED netCalls
       ELSE IF to = "download"
       THEN /\ dtask' = [dtask EXCEPT ![i] = "waitnet"]
            /\ netCalls' = netCalls \cup {rows[i].manual_id}
            /\ UNCHANGED <<dpc, done, changed>>
       ELSE /\ dtask' = [dtask EXCEPT ![i] = to]
            /\ UNCHANGED <<netCalls, dpc, done, changed>>
    /\ UNCHANGED <<store, files, partials, walkerVars, auxVars, onlyMissing, rows, dbFailed>>

\* await setLocalPath(r.manual_id, relFromAbs(abs2)); return false  (outside any try)
DbTaskHeal(i) ==
    /\ dpc = "running"
    /\ dtask[i] = "heal"
    /\ \E dbOk \in BOOLEAN :
         IF dbOk
         THEN /\ store' = SetLocalPathRows(store, rows[i].manual_id,
                                           relFromAbs(LegacyAbs(rows[i].pdf_local_path)))
              /\ DbTaskEnds(i, FALSE)
              /\ UNCHANGED dbFailed
         ELSE /\ DbFail
              /\ dbFailed' = TRUE
              /\ UNCHANGED <<store, dtask, done, changed>>
    /\ UNCHANGED <<files, partials, netCalls, walkerVars, auxVars, onlyMissing, rows>>

\* await setLocalPath(r.manual_id, relFromAbs(outPath)); return false  (outside any try)
DbTaskAdopt(i) ==
    /\ dpc = "running"
    /\ dtask[i] = "adopt"
    /\ \E dbOk \in BOOLEAN :
         IF dbOk
         THEN /\ store' = SetLocalPathRows(store, rows[i].manual_id,
                                           relFromAbs(expectedOutPath(rows[i])))
              /\ DbTaskEnds(i, FALSE)
              /\ UNCHANGED dbFailed
         ELSE /\ DbFail
              /\ dbFailed' = TRUE
              /\ UNCHANGED <<store, dtask, done, changed>>
    /\ UNCHANGED <<files, partials, netCalls, walkerVars, auxVars, onlyMissing, rows>>

\* http.download got its slot and opened the write stream
DbTaskStream(i) ==
    /\ dpc = "running"
    /\ dtask[i] = "waitnet"
    /\ StreamOpen(expectedOutPath(rows[i]))
    /\ dtask' = [dtask EXCEPT ![i] = "stream"]
    /\ UNCHANGED <<store, netCalls, walkerVars, auxVars, onlyMissing, dpc, rows, done, changed,
                   dbFailed>>

\* the stream finished: setLocalPath is called next, inside the try
DbTaskSaved(i) ==
    /\ dpc = "running"
    /\ dtask[i] = "stream"
    /\ StreamFinish(expectedOutPath(rows[i]),
                    \E j \in DOMAIN dtask \ {i} :
                        dtask[j] = "stream" /\ expectedOutPath(rows[j]) = expectedOutPath(rows[i]))
    /\ dtask' = [dtask EXCEPT ![i] = "persist"]
    /\ UNCHANGED <<store, netCalls, walkerVars, auxVars, onlyMissing, dpc, rows, done, changed,
                   dbFailed>>

\* mutant: the rejection leaves downloadRow and main() rejects
DbTaskFailed_Halts(i) ==
    /\ dpc = "running"
    /\ dtask[i] = "stream"
    /\ StreamError(expectedOutPath(rows[i]))
    /\ dtask' = [dtask EXCEPT ![i] = "done"]
    /\ DbFail
    /\ UNCHANGED <<store, netCalls, walkerVars, auxVars, onlyMissing, rows, done, changed,
                   dbFailed>>

\* mutant: the failed task is counted as downloaded
DbTaskFailed_CountsDownloaded(i) ==
    /\ dpc = "running"
    /\ dtask[i] = "stream"
    /\ StreamError(expectedOutPath(rows[i]))
    /\ DbTaskEnds(i, TRUE)
    /\ UNCHANGED <<store, netCalls, walkerVars, auxVars, onlyMissing, rows, dbFailed>>

\* the stream failed: catch (e) logs and returns false
DbTaskFailed(i) ==
    /\ dpc = "running"
    /\ dtask[i] = "stream"
    /\ StreamError(expectedOutPath(rows[i]))
    /\ DbTaskEnds(i, FALSE)
    /\ UNCHANGED <<store, netCalls, walkerVars, auxVars, onlyMissing, rows, dbFailed>>

\* await setLocalPath(...); return true -- a rejection is caught by the same
\* catch (e) as a failed download and the task returns false
DbTaskPersist(i) ==
    /\ dpc = "running"
    /\ dtask[i] = "persist"
    /\ \E dbOk \in BOOLEAN :
         IF dbOk
         THEN /\ store' = SetLocalPathRows(store, rows[i].manual_id,
                                           relFromAbs(expectedOutPath(rows[i])))
              /\ DbTaskEnds(i, TRUE)
              /\ UNCHANGED dbFailed
         ELSE /\ UNCHANGED store
              /\ dbFailed' = TRUE
              /\ DbTaskEnds(i, FALSE)
    /\ UNCHANGED <<files, partials, netCalls, walkerVars, auxVars, onlyMissing, rows>>

\* the program is started again after the previous process has exited: the table
\* and the disk are as it left them, the environment is read afresh
DbRestart ==
    /\ dpc \in {"finished", "failed"}
    /\ dpc' = "start"
    /\ onlyMissing' \in BOOLEAN
    /\ rows' = <<>>
    /\ dtask' = <<>>
    /\ done' = 0
    /\ changed' = 0
    /\ dbFailed' = FALSE
    /\ netCalls' = {}
    /\ UNCHANGED <<store, files, partials, walkerVars, auxVars>>

DbNext ==
    \/ DbStart
    \/ DbRestart
    \/ \E i \in DOMAIN dtask : DbTaskCheck(i)
    \/ \E i \in DOMAIN dtask : DbTaskHeal(i)
    \/ \E i \in DOMAIN dtask : DbTaskAdopt(i)
    \/ \E i \in DOMAIN dtask : DbTaskStream(i)
    \/ \E i \in DOMAIN dtask : DbTaskSaved(i)
    \/ \E i \in DOMAIN dtask : DbTaskFailed(i)
    \/ \E i \in DOMAIN dtask : DbTaskPersist(i)

\* the rows an earlier populate run left: id 1 has an English name, id 2 only a
\* Japanese one, the others none
DbItem(id) ==
    [manualId |-> id,
     detailPath |-> "/menus/detail/" \o ToString(id),
     detailUrl |-> absoluteToManualSite("/menus/detail/" \o ToString(id)),
     pdfUrl |-> absoluteToManualSite("/pdf/" \o ToString(id) \o ".pdf"),
     nameJp |-> IF id = 2 THEN <<"a">> ELSE <<>>,
     nameEn |-> IF id = 1 THEN <<"H", "/", "G">> ELSE <<>>,
     grade |-> inferGrade(IF id = 1 THEN <<"H", "/", "G">> ELSE <<>>,
                          IF id = 2 THEN <<"a">> ELSE <<>>),
     releaseDate |-> <<>>,
     releaseDateText |-> <<>>]

\* a file of an older layout inside the storage root, and one outside it
LegacyInside == AbsPath(<<"app", "downloads", "old", "a.pdf">>)
LegacyOutside == AbsPath(<<"app", "legacy", "a.pdf">>)

\* values an older version stored: absolute, or relative to the working directory
LegacyPaths ==
    { LegacyInside, relative(Cwd, LegacyInside), LegacyOutside, relative(Cwd, LegacyOutside) }

\* values of pdf_local_path the current version leaves for this row; '' is what
\* a manual reset leaves
CurrentPaths(id) == { NullPath, relFromAbs(expectedOutPath(RowOf(DbItem(id), NullPath))) }

\* the tables a run starts from: the oldest row may still carry a legacy value or
\* '', the second may have its file recorded, the newer ones have no path yet
DbTables ==
    { t \in [1..MaxRows -> UNION {CurrentPaths(id) : id \in 1..MaxRows}
                             \cup LegacyPaths \cup {RelPath(<<>>)}] :
        /\ t[1] \in CurrentPaths(1) \cup LegacyPaths \cup {RelPath(<<>>)}
        /\ \A id \in 2..MaxRows : t[id] \in IF id = 2 THEN CurrentPaths(id) ELSE {NullPath} }

DbFiles ==
    {expectedOutPath(RowOf(DbItem(id), NullPath)).segs : id \in 1..MaxRows}
      \cup {LegacyInside.segs, LegacyOutside.segs}

WalkerIdle ==
    /\ wpc = "idle"
    /\ page = 1
    /\ total = 0
    /\ requested = <<>>
    /\ inflight = {}
    /\ items = <<>>
    /\ finalPageParam = NoPage
    /\ err = "none"
    /\ idx = 0
    /\ wtask = <<>>
    /\ dlFlag = FALSE
    /\ dlLimit = DL_CONCURRENCY

DbInit ==
    /\ \E t \in DbTables : store = [id \in 1..MaxRows |-> RowOf(DbItem(id), t[id])]
    /\ files \in SUBSET DbFiles
    \* a legacy file is on disk only where the oldest row still names it
    /\ \A l \in {LegacyInside, LegacyOutside} :
         l.segs \in files => store[1].pdf_local_path \in {l, relative(Cwd, l)}
    /\ partials = {}
    /\ netCalls = {}
    /\ onlyMissing \in BOOLEAN
    /\ dpc = "start"
    /\ rows = <<>>
    /\ dtask = <<>>
    /\ done = 0
    /\ changed = 0
    /\ dbFailed = FALSE
    /\ WalkerIdle
    /\ AuxIdle

DbSpec == DbInit /\ [][DbNext]_vars

\* either program, started on its own
BothInit == WalkerInit \/ DbInit

BothNext == WalkerNext \/ DbNext

BothSpec == BothInit /\ [][BothNext]_vars

---------------------------------------------------------------------------
(* Claims about the listing walker and the upsert sink, checked under Spec *)

WalkerStopped == wpc \in {"stopped_empty", "stopped_redirect", "failed"}

\* C1: the number of page fetches never exceeds the configured maximum page
\* count, whatever the source answers.
C1_FetchesBoundedByMaxPages == Len(requested) <= MAX_PAGES

\* C2: pages are requested from 1 in increasing order; a response with zero
\* extractable items stops the walker without an error, and once stopped it
\* takes no further step (no later page is requested).
C2_EmptyPageStops ==
    /\ requested = [i \in 1..Len(requested) |-> i]
    /\ (items = <<>> /\ requested # <<>>) =>
          \/ wpc = "stopped_empty"
          \/ Len(requested) = 1 /\ (wpc = "fetching" \/ err = "fetch")
    /\ wpc = "stopped_empty" =>
          /\ items = <<>>
          /\ err = "none"
          /\ Len(requested) = page
          /\ ~ENABLED WalkerNext

C2_Witness ==
    /\ wpc = "stopped_empty"
    /\ requested = [i \in 1..PageCap |-> i]
    /\ total = (PageCap - 1) * MaxItems

\* C3: a response whose page parameter differs from the requested page stops
\* the walker in the same step with the table, the disk, the download calls and
\* the processed total untouched, and nothing changes afterwards.
C3_RedirectStopsUnprocessed ==
    [][ /\ (wpc = "fetching" /\ wpc' # "failed" /\ finalPageParam' \notin {NoPage, page}) =>
              /\ wpc' \in {"stopped_redirect", "stopped_empty"}
              /\ UNCHANGED <<store, files, partials, netCalls, total, page>>
        /\ wpc = "stopped_redirect" => UNCHANGED vars ]_vars

C3_Witness ==
    /\ wpc = "stopped_redirect"
    /\ page = 2
    /\ finalPageParam = 1
    /\ total = 1
    /\ Len(store) = 1
    /\ \E i \in DOMAIN items : items[i].manualId # store[1].manual_id

\* C4: at most one page fetch is in flight, only while main() awaits scrapePage,
\* and whenever a request is in flight every item of the page before it has
\* been upserted.
C4_OneFetchAfterUpserts ==
    /\ Cardinality(inflight) <= 1
    /\ inflight # {} <=> wpc = "fetching"
    /\ wpc = "fetching" =>
          /\ inflight = {page}
          /\ idx = Len(items)
          /\ \A i \in DOMAIN items : \E j \in DOMAIN store : store[j].manual_id = items[i].manualId

C4_Witness ==
    /\ wpc = "fetching"
    /\ page = 2
    /\ Len(items) = MaxItems
    /\ Len(store) = 2

\* C5: when the fetch of a page fails the run ends in failure in the same step,
\* with the table and the disk as they were and no further request; after a
\* failure nothing changes.
C5_FetchFailureHalts ==
    [][ /\ (err = "none" /\ err' = "fetch") =>
              /\ wpc' = "failed"
              /\ UNCHANGED <<store, files, partials, requested>>
        /\ wpc = "failed" => UNCHANGED vars ]_vars

C5_Witness ==
    /\ wpc = "failed"
    /\ err = "fetch"
    /\ requested = <<1, 2>>
    /\ Len(store) = 2

OneRowPerId(st) ==
    \A i \in DOMAIN st, j \in DOMAIN st : st[i].manual_id = st[j].manual_id => i = j

MutableFields(r) == [r EXCEPT !.pdf_local_path = NullPath]

\* C6: the table never holds two rows with one id; an upsert never raises; it
\* leaves exactly one row for its id, carrying the item's fields, and the other
\* rows as they were; no other step changes those fields; and upserting the
\* same item again changes nothing.
C6_UpsertOneRowLatestFields ==
    /\ [](/\ OneRowPerId(store)
          /\ wpc = "upsert" =>
                LET it == items[idx + 1]
                    once == UpsertRows(store, it)
                IN /\ ~UpsertRaises(store, it)
                   /\ ~UpsertRaises(once, it)
                   /\ UpsertRows(once, it) = once)
    /\ [][ IF wpc = "upsert" /\ idx' = idx + 1
           THEN LET it == items[idx + 1] IN
                /\ \E i \in DOMAIN store' :
                      /\ MutableFields(store'[i]) = RowOf(it, NullPath)
                      /\ \A j \in DOMAIN store' : store'[j].manual_id = it.manualId => j = i
                /\ {store'[i] : i \in {j \in DOMAIN store' : store'[j].manual_id # it.manualId}}
                     = {store[i] : i \in {j \in DOMAIN store : store[j].manual_id # it.manualId}}
           ELSE [i \in DOMAIN store' |-> MutableFields(store'[i])]
                  = [i \in DOMAIN store |-> MutableFields(store[i])] ]_vars

C6_Witness ==
    /\ idx = 2
    /\ items[1] = items[2]
    /\ Len(store) = 1
    /\ MutableFields(store[1]) = RowOf(items[2], NullPath)

\* the stored path of the row with this id, NullPath when there is no such row
LocalPathOf(st, id) ==
    IF \E i \in DOMAIN st : st[i].manual_id = id
    THEN (CHOOSE r \in {st[i] : i \in DOMAIN st} : r.manual_id = id).pdf_local_path
    ELSE NullPath

\* C7: an upsert leaves every row's pdf_local_path as it was; a stored path
\* changes only in the step where a download task's setLocalPath runs.
C7_UpsertKeepsLocalPath ==
    [][ \A id \in {store[i].manual_id : i \in DOMAIN store}
                  \cup {store'[i].manual_id : i \in DOMAIN store'} :
           LocalPathOf(store', id) # LocalPathOf(store, id) =>
              /\ wpc = "download"
              /\ \E i \in DOMAIN wtask : wtask[i] = "persist" /\ items[i].manualId = id ]_vars

C7_Witness ==
    /\ wpc = "upsert"
    /\ idx = 1
    /\ \E i \in DOMAIN store :
          /\ store[i].pdf_local_path # NullPath
          /\ MutableFields(store[i]) = RowOf(items[1], NullPath)
          /\ store[i].name_jp # <<>>

---------------------------------------------------------------------------
(* Claims about the download orchestrator, checked under DbSpec *)

\* the stored path names an existing file, relative to the root or as a legacy path
Resolves(r) ==
    /\ HasLocalPath(r)
    /\ existsSync(absFromRel(r.pdf_local_path)) \/ existsSync(LegacyAbs(r.pdf_local_path))

\* C8: once the task of a row whose stored path is absolute, exists and lies
\* inside the storage root has ended, the row holds the root-relative form of
\* that path and no download was called for it.
C8_LegacyAbsoluteHealed ==
    \A i \in DOMAIN dtask :
        LET p == rows[i].pdf_local_path IN
        (dtask[i] = "done" /\ isAbsolute(p) /\ existsSync(p) /\ InsideRoot(p)) =>
            /\ LocalPathOf(store, rows[i].manual_id) = relFromAbs(p)
            /\ rows[i].manual_id \notin netCalls

\* C9: a task that finds no resolvable stored path and the expected file on
\* disk calls no download, and its next step writes the expected file's
\* root-relative path to the row and ends the task.
C9_ExistingExpectedFileAdopted ==
    [][ \A i \in DOMAIN dtask \cap DOMAIN dtask' :
          LET r == rows[i] IN
          /\ (dtask[i] = "mkdir" /\ dtask'[i] # "mkdir" /\ ~Resolves(r)
                /\ existsSync(expectedOutPath(r))) =>
                /\ dtask'[i] = "adopt"
                /\ r.manual_id \notin netCalls'
                /\ UNCHANGED <<files, partials>>
          /\ (dtask[i] = "adopt" /\ dtask'[i] # "adopt") =>
                /\ dtask'[i] = "done"
                /\ LocalPathOf(store', r.manual_id) = relFromAbs(expectedOutPath(r))
                /\ r.manual_id \notin netCalls'
                /\ UNCHANGED <<files, partials, changed>> ]_vars

C9_Witness ==
    \E i \in DOMAIN dtask :
        /\ dtask[i] = "done"
        /\ HasLocalPath(rows[i])
        /\ ~Resolves(rows[i])
        /\ LocalPathOf(store, rows[i].manual_id) = relFromAbs(expectedOutPath(rows[i]))
        /\ LocalPathOf(store, rows[i].manual_id) # rows[i].pdf_local_path
        /\ rows[i].manual_id \notin netCalls

OutsideRoot(a) ==
    \/ Len(a.segs) < Len(filesRoot.segs)
    \/ SubSeq(a.segs, 1, Len(filesRoot.segs)) # filesRoot.segs

C12_FailedDownloadRetried ==
    \A i \in DOMAIN dtask :
        LET r == rows[i] IN
        (dtask[i] \notin {"queued", "mkdir"} /\ ~HasLocalPath(r)
           /\ expectedOutPath(r).segs \in partials) =>
            r.manual_id \in netCalls

\* C13: the path a run has stored for a record that had none never names a
\* file whose stream did not finish.
C13_NoPathToPartialFile ==
    \A i \in DOMAIN dtask :
        LET r == rows[i]
            now == LocalPathOf(store, r.manual_id) IN
        (dtask[i] = "done" /\ ~HasLocalPath(r) /\ now # r.pdf_local_path) =>
            absFromRel(now).segs \notin partials

---------------------------------------------------------------------------
(* Claims about the download tasks of both programs, checked under BothSpec *)

\* task j is left alone by the step, or is the queued task p-limit starts
Undisturbed(t, tNext, j) ==
    \/ tNext[j] = t[j]
    \/ t[j] = "queued" /\ tNext[j] = "mkdir"

\* C14: the step in which a task's download stream fails ends that task only:
\* the run does not halt and every other task of the batch keeps its position
\* (the next queued task is started); this holds in the orchestrator and in the
\* walker's inline download step.
C14_DownloadFailureIsolated ==
    [][ /\ \A i \in DOMAIN dtask \cap DOMAIN dtask' :
             (dtask[i] = "stream" /\ dtask'[i] = "done") =>
                 /\ dpc' # "failed"
                 /\ \A j \in DOMAIN dtask \ {i} : Undisturbed(dtask, dtask', j)
        /\ \A i \in DOMAIN wtask \cap DOMAIN wtask' :
             (wtask[i] = "stream" /\ wtask'[i] = "done") =>
                 /\ wpc' # "failed"
                 /\ err' = err
                 /\ \A j \in DOMAIN wtask \ {i} : Undisturbed(wtask, wtask', j) ]_vars

\* a finished orchestrator run in which one download failed and another one was
\* saved and recorded
C14_Witness ==
    /\ dpc = "finished"
    /\ \E i, j \in DOMAIN dtask :
         /\ i # j
         /\ {rows[i].manual_id, rows[j].manual_id} \subseteq netCalls
         /\ expectedOutPath(rows[i]).segs \in partials
         /\ LocalPathOf(store, rows[i].manual_id) = NullPath
         /\ expectedOutPath(rows[j]).segs \in files \ partials
         /\ rows[j].pdf_local_path = NullPath
         /\ LocalPathOf(store, rows[j].manual_id) = relFromAbs(expectedOutPath(rows[j]))
         /\ changed = 1

\* C15: from its download call up to the failure of its stream a task leaves
\* its record's stored path as it was, and the failing step reports 'not
\* downloaded': the orchestrator counts the task as done but not as changed,
\* the walker's task ends without a setLocalPath.
C15_FailedDownloadKeepsPath ==
    [][ /\ \A i \in DOMAIN dtask \cap DOMAIN dtask' :
             /\ (dtask'[i] # dtask[i] /\ dtask'[i] \in {"waitnet", "stream"}) =>
                    store' = store
             /\ (dtask[i] = "stream" /\ dtask'[i] = "done") =>
                    /\ store' = store
                    /\ changed' = changed
                    /\ done' = done + 1
        /\ \A i \in DOMAIN wtask \cap DOMAIN wtask' :
             /\ (wtask'[i] # wtask[i] /\ wtask'[i] \in {"waitnet", "stream"}) =>
                    store' = store
             /\ (wtask[i] = "stream" /\ wtask'[i] = "done") =>
                    store' = store ]_vars

\* a finished orchestrator run whose only download failed
C15_Witness ==
    /\ dpc = "finished"
    /\ changed = 0
    /\ \E i \in DOMAIN dtask :
         /\ netCalls = {rows[i].manual_id}
         /\ expectedOutPath(rows[i]).segs \in partials
         /\ LocalPathOf(store, rows[i].manual_id) = rows[i].pdf_local_path

\* C16: an orchestrator task that has ended after its download was saved has
\* recorded the file's path: a setLocalPath that raises halts the run instead
\* of letting the task end.
C16_PersistenceErrorHalts ==
    \A i \in DOMAIN dtask :
        LET r == rows[i] IN
        (dtask[i] = "done" /\ r.manual_id \in netCalls
           /\ expectedOutPath(r).segs \in files \ partials) =>
            LocalPathOf(store, r.manual_id) = relFromAbs(expectedOutPath(r))

\* C17: at every moment the tasks in flight number at most the configured
\* download concurrency, in the orchestrator and in the walker's inline
\* download step.
C17_TasksWithinLimit ==
    /\ Cardinality(DbRunning) <= DB_DL_CONCURRENCY
    /\ Cardinality(WalkerRunning) <= dlLimit

\* the walker's limit holds a task back
C17_Witness ==
    /\ wpc = "download"
    /\ Cardinality(WalkerRunning) = dlLimit
    /\ \E i \in DOMAIN wtask : wtask[i] = "queued"

\* C18: no two download tasks of a page that stream at the same time write to
\* the same target path.
C18_NoSharedTargetPath ==
    \A i, j \in DOMAIN wtask :
        (i # j /\ wtask[i] = "stream" /\ wtask[j] = "stream") =>
            WalkerOutPath(items[i]) # WalkerOutPath(items[j])

---------------------------------------------------------------------------
(* Claims about the walker's write order, checked under Spec *)

\* the table has a row for the item
Upserted(st, it) == \E k \in DOMAIN st : st[k].manual_id = it.manualId

\* C19: the items of the page are upserted one by one in page order, so at
\* every moment (a halt included) the first idx items of the page are in the
\* table; an upsert that raises writes nothing and halts the run; the page
\* counter advances only when all items of the page are in the table; a halted
\* walker writes no more.
C19_UpsertsInCrawlOrder ==
    /\ [](/\ idx <= Len(items)
          /\ \A k \in 1..idx : Upserted(store, items[k]))
    /\ [][ /\ (wpc = "upsert" /\ store' # store) =>
                /\ idx' = idx + 1
                /\ store' = UpsertRows(store, items[idx + 1])
           /\ (wpc = "upsert" /\ wpc' = "failed") => (store' = store /\ idx' = idx)
           /\ page' # page =>
                /\ page' = page + 1
                /\ items' = items
                /\ idx' = Len(items)
                /\ \A k \in 1..Len(items) : Upserted(store', items[k])
           /\ WalkerStopped => store' = store ]_vars

\* halted on the second page with its first item written and its second not
C19_Witness ==
    /\ wpc = "failed"
    /\ err = "db"
    /\ page = 2
    /\ Len(items) = 2
    /\ idx = 1
    /\ Upserted(store, items[1])
    /\ ~Upserted(store, items[2])

---------------------------------------------------------------------------
(* Claim about download:db:all, checked under DbSpec *)

\* C20: a run with ONLY_MISSING=0 that has finished has called the download
\* of every row it selected, whatever path the row had stored.
C20_AllRowsRedownloaded ==
    (~onlyMissing /\ dpc = "finished") =>
        \A i \in DOMAIN rows : rows[i].manual_id \in netCalls

-----------------------------------------------------------------------------
(* scrape_bandai.ts: the field extractors, each called on its own *)

\* the largest day and month number a date text of the listing carries
MaxDay == 32
MaxMonth == 13
\* the longest product name
MaxNameLen == 3

NoDay == 0 - 1

\* the ways a page writes the number n: plain, and with a leading zero
NumTexts(n) == {String(n), padStart(String(n), 2, "0")}

\* a date text together with the year, month and day it was written from
DateText(shape, text, y, m, d) ==
    [shape |-> shape, text |-> text, year |-> y, month |-> m, day |-> d]

DateYears == {50, 1900, 2000, 2023, 2024}

JpDateTexts ==
    UNION { { DateText("jp", padStart(String(y), 4, "0") \o <<Nen>> \o sp \o mo \o <<Gatsu>>,
                       y, m, NoDay) :
                sp \in {<<>>, <<" ">>}, mo \in NumTexts(m) } :
            y \in DateYears, m \in 0..MaxMonth }
    \cup
    UNION { { DateText("jp", padStart(String(y), 4, "0") \o <<Nen>> \o mo \o <<Gatsu>> \o sp
                              \o dd \o <<Nichi>> \o <<"x">>, y, m, d) :
                sp \in {<<>>, <<" ">>}, mo \in NumTexts(m), dd \in NumTexts(d) } :
            y \in DateYears, m \in 0..MaxMonth, d \in 0..MaxDay }

IsoDateTexts ==
    UNION { { DateText("iso", <<" ">> \o padStart(String(y), 4, "0") \o <<s1>> \o mo \o <<s2>> \o dd,
                       y, m, d) :
                s1 \in {"-", "/"}, s2 \in {"-", "/"}, mo \in NumTexts(m), dd \in NumTexts(d) } :
            y \in DateYears, m \in 0..MaxMonth, d \in 0..MaxDay }

\* texts no pattern matches
OtherDateTexts ==
    { DateText("none", t, 0, 0, NoDay) :
        t \in {<<>>, <<"2", "0", "2", "4">>, <<"2", "0", "2", Nen, "1", Gatsu>>,
               <<"2", "0", "2", "4", Nen, "1", "2", "3", Gatsu>>} }

DateTexts == JpDateTexts \cup IsoDateTexts \cup OtherDateTexts

NameChars == {"m", "G", "z", "p", " ", "\t"}

Names(n) == UNION { [1..k -> NameChars] : k \in 0..n }

\* how a product name may begin
NameHeads ==
    {<<>>, <<"h", "g", "u", "c">>, <<"R", "E", "/", "1", "0", "0">>, <<"3", "0", "M", "S">>,
     <<"E", "N", "T", "R", "Y", " ", "G", "R", "A", "D", "E">>}

GradeArgs ==
    { [nameEn |-> h \o t, nameJp |-> jp] :
        h \in NameHeads, t \in Names(MaxNameLen), jp \in {<<>>, <<"z">>, <<"m", "g", " ">>} }

LibInit ==
    /\ \/ fn = "parseReleaseDate" /\ arg \in DateTexts
       \/ fn = "inferGrade" /\ arg \in GradeArgs
       \/ fn = "scrapePage" /\ arg \in RawPages
    /\ ret = <<>>
    /\ store = <<>>
    /\ files = {}
    /\ partials = {}
    /\ netCalls = {}
    /\ WalkerIdle
    /\ DbIdle
    /\ CrawlIdle
    /\ PoolIdle

\* each call returns once; ret holds the value returned
CallParseReleaseDate ==
    /\ fn = "parseReleaseDate" /\ ret = <<>>
    /\ ret' = <<parseReleaseDate(arg.text)>>
    /\ UNCHANGED <<storeVars, walkerVars, dbVars, crawlVars, poolVars, fn, arg>>

CallInferGrade ==
    /\ fn = "inferGrade" /\ ret = <<>>
    /\ ret' = <<inferGrade(arg.nameEn, arg.nameJp)>>
    /\ UNCHANGED <<storeVars, walkerVars, dbVars, crawlVars, poolVars, fn, arg>>

\* the extraction loop of scrapePage over the elements of the page fetched
CallScrapePage ==
    /\ fn = "scrapePage" /\ ret = <<>>
    /\ ret' = <<ScrapeItems(arg)>>
    /\ UNCHANGED <<storeVars, walkerVars, dbVars, crawlVars, poolVars, fn, arg>>

LibNext == CallParseReleaseDate \/ CallInferGrade \/ CallScrapePage

LibSpec == LibInit /\ [][LibNext]_vars

-----------------------------------------------------------------------------
(* C21 *)

\* (y, m, d) is a date of the Gregorian calendar
RealDate(y, m, d) ==
    /\ m \in 1..12
    /\ d >= 1
    /\ d <= (CASE m = 2 -> IF (y % 4 = 0 /\ y % 100 # 0) \/ y % 400 = 0 THEN 29 ELSE 28
               [] m \in {4, 6, 9, 11} -> 30
               [] OTHER -> 31)

\* C21: for a release-date text matching a supported pattern with year y, month
\* m and optional day d, the structured date is non-null exactly when the day
\* is present, 1 <= m <= 12 and (y, m, d) is a real calendar date, and it is
\* then the zero-padded y-m-d.
C21_RealDatesParsed ==
    (fn = "parseReleaseDate" /\ ret # <<>> /\ arg.shape # "none") =>
        LET valid == arg.day # NoDay /\ RealDate(arg.year, arg.month, arg.day)
        IN /\ (ret[1].date # <<>>) <=> valid
           /\ valid => ret[1].date = padStart(String(arg.year), 4, "0") \o <<"-">>
                                       \o padStart(String(arg.month), 2, "0") \o <<"-">>
                                       \o padStart(String(arg.day), 2, "0")

-----------------------------------------------------------------------------
(* C22 *)

\* the name grade inference reads: the foreign one if non-empty, else the native
GradeName(a) == IF a.nameEn # <<>> THEN a.nameEn ELSE a.nameJp

\* c is a prefix of s
IsPrefix(c, s) == Len(c) <= Len(s) /\ \A i \in 1..Len(c) : s[i] = c[i]

\* g is the first token of s, tokens being delimited by the characters of seps
IsFirstToken(g, s, seps) ==
    /\ IsPrefix(g, s)
    /\ \A i \in 1..Len(g) : g[i] \notin seps
    /\ Len(g) = Len(s) \/ s[Len(g) + 1] \in seps

\* g is the first listed candidate that is a prefix of s
IsFirstCandidate(g, s) ==
    \E k \in DOMAIN candidates :
        /\ g = candidates[k]
        /\ IsPrefix(candidates[k], s)
        /\ \A j \in 1..(k - 1) : ~IsPrefix(candidates[j], s)

\* C22 as stated: the grade is the first listed candidate that is a prefix of
\* the upper-cased name; if there is none it is the first whitespace-delimited
\* token of the name; it is null when the name is empty.
C22_GradeFromName ==
    (fn = "inferGrade" /\ ret # <<>>) =>
        LET name == Trim(GradeName(arg))
            upper == toUpperCase(name)
        IN IF name = <<>> THEN ret[1] = <<>>
           ELSE IF \E k \in DOMAIN candidates : IsPrefix(candidates[k], upper)
                THEN IsFirstCandidate(ret[1], upper)
                ELSE IsFirstToken(ret[1], name, Space)

\* C22 amended: as above, but the fallback is the first token of the
\* upper-cased name, tokens being delimited by the space character only.
C22_GradeFromUpperName ==
    (fn = "inferGrade" /\ ret # <<>>) =>
        LET name == Trim(GradeName(arg))
            upper == toUpperCase(name)
        IN IF name = <<>> THEN ret[1] = <<>>
           ELSE IF \E k \in DOMAIN candidates : IsPrefix(candidates[k], upper)
                THEN IsFirstCandidate(ret[1], upper)
                ELSE IsFirstToken(ret[1], upper, {" "})

\* a lower-case foreign name of two words with no known grade yields its first
\* word in upper case, whatever the native name
C22_Witness ==
    /\ fn = "inferGrade"
    /\ arg.nameEn = <<"z", " ", "m">> /\ arg.nameJp = <<"m", "g", " ">>
    /\ ret = << <<"Z">> >>

-----------------------------------------------------------------------------
(* C23 *)

\* the detail link of the element holds a digit
HasId(el) == \E i \in 1..Len(el.href) : el.href[i] \in Digits

\* C23: the result of a page holds exactly the items of the elements with a
\* derivable id, in document order, each extracted as it would be alone; an
\* element without an id is passed over and the call returns all the same.
C23_IdlessItemsSkipped ==
    (fn = "scrapePage" /\ ret # <<>>) =>
        LET kept == SelectSeq(arg, HasId)
        IN /\ Len(ret[1]) = Len(kept)
           /\ \A i \in 1..Len(kept) : ret[1][i] = ItemOf(kept[i])

\* a page whose first element has no id and whose second has one returns the
\* second alone
C23_Witness ==
    /\ fn = "scrapePage" /\ ret # <<>>
    /\ Len(arg) = 2 /\ ~HasId(arg[1]) /\ HasId(arg[2])
    /\ ret[1] = <<ItemOf(arg[2])>>

-----------------------------------------------------------------------------
(* crawler.ts, utils.ts: the generic crawler *)

\* the largest cfg.maxPages and the most links on one page
MaxCrawlPages == 3
MaxLinks == 2

\* a URL as its string: host, pathname with search (as words), and fragment
Url(host, path, hash) == [host |-> host, path |-> path, hash |-> hash]

\* null, where a URL is expected
NoUrl == Url("", <<>>, <<>>)

\* cfg.baseUrl
baseUrl == Url("a", <<"/">>, <<>>)

\* cfg.hostAllowlist ?? [new URL(cfg.baseUrl).host]
hostAllowlist == {baseUrl.host}

\* lower case of the words that come in upper case
toLowerCase1(w) ==
    CASE w = "A" -> "a" [] w = "Item" -> "item" [] w = ".PNG" -> ".png" [] OTHER -> w

\* a case-insensitive RegExp: /w/i for a word of words ("has"), /w$/i ("ends")
RegExpI(kind, words) == [kind |-> kind, words |-> words]

\* p.test(value)
Test(p, value) ==
    IF p.kind = "has" THEN \E i \in DOMAIN value : toLowerCase1(value[i]) \in p.words
    ELSE value # <<>> /\ toLowerCase1(Last(value)) \in p.words

\* cfg.includePathPatterns ?? [/manual/i, /item/i, /catalog/i, /pdf$/i]
includePathPatterns ==
    <<RegExpI("has", {"manual"}), RegExpI("has", {"item"}), RegExpI("has", {"catalog"}),
      RegExpI("ends", {".pdf"})>>

\* cfg.excludePathPatterns ?? [/\.(jpg|jpeg|png|gif|svg|webp)$/i]
excludePathPatterns ==
    <<RegExpI("ends", {".jpg", ".jpeg", ".png", ".gif", ".svg", ".webp"})>>

matchesAny(value, patterns) ==
    IF patterns = <<>> THEN TRUE
    ELSE \E i \in DOMAIN patterns : Test(patterns[i], value)

\* matchesNone letting every value through
matchesNone_Always(value, patterns) == TRUE

matchesNone(value, patterns) ==
    IF patterns = <<>> THEN TRUE
    ELSE ~\E i \in DOMAIN patterns : Test(patterns[i], value)

\* an href attribute: absolute, root-relative, or one new URL() rejects
Href(kind, host, path, hash) == [kind |-> kind, host |-> host, path |-> path, hash |-> hash]

\* ensureAbsoluteUrl(base, href): new URL(href, base).toString(), the host in
\* lower case; NoUrl when the href is empty or does not parse
ensureAbsoluteUrl(base, href) ==
    CASE href.kind = "abs" -> Url(toLowerCase1(href.host), href.path, href.hash)
      [] href.kind = "rel" -> Url(base.host, href.path, href.hash)
      [] OTHER -> NoUrl

\* safeUrl(abs): the URL parsed again
safeUrl(input) == input

\* the selector a[href$=".pdf"]
HrefEndsPdf(href) == href.kind # "bad" /\ href.hash = <<>> /\ Last(href.path) = ".pdf"

\* abs.endsWith('.pdf')
endsWithPdf(abs) == abs.hash = <<>> /\ abs.path # <<>> /\ Last(abs.path) = ".pdf"

\* the PDFs the first .each() of an iteration adds
PdfsOn(from, links) ==
    { safeUrl(ensureAbsoluteUrl(from, links[i])) :
        i \in { j \in DOMAIN links :
                  /\ HrefEndsPdf(links[j])
                  /\ ensureAbsoluteUrl(from, links[j]) # NoUrl
                  /\ \/ ensureAbsoluteUrl(from, links[j]).host \in hostAllowlist
                     \/ endsWithPdf(ensureAbsoluteUrl(from, links[j])) } }

\* one link passes the second .each()
Follows(from, href) ==
    LET u == safeUrl(ensureAbsoluteUrl(from, href))
    IN /\ u # NoUrl
       /\ u.host \in hostAllowlist
       /\ matchesAny(u.path, includePathPatterns)
       /\ matchesNone(u.path, excludePathPatterns)

RECURSIVE NextLinks(_, _)
\* const nextLinks, in document order
NextLinks(from, links) ==
    IF links = <<>> THEN <<>>
    ELSE IF Follows(from, Head(links))
         THEN <<safeUrl(ensureAbsoluteUrl(from, Head(links)))>> \o NextLinks(from, Tail(links))
         ELSE NextLinks(from, Tail(links))

\* the links a page of the modelled sites can carry
Hrefs ==
    { Href("rel", "", <<"/", "manual", "/", "1">>, <<"#", "top">>),
      Href("abs", "A", <<"/", "item", "/", "3">>, <<>>),
      Href("rel", "", <<"/", "catalog", ".pdf">>, <<>>),
      Href("abs", "cdn", <<"/", "manual", "/", "2", ".pdf">>, <<>>),
      Href("rel", "", <<"/", "Item", ".PNG">>, <<>>),
      Href("rel", "", <<"/", "about">>, <<>>),
      Href("bad", "", <<>>, <<>>) }

PageLinks == UNION { [1..n -> Hrefs] : n \in 0..MaxLinks }

StoreIdle ==
    /\ store = <<>>
    /\ files = {}
    /\ partials = {}
    /\ netCalls = {}

\* crawl() entered
CrawlInit ==
    /\ cpc = "loop"
    /\ maxPages \in 0..MaxCrawlPages
    /\ q = <<baseUrl>>
    /\ seen = {}
    /\ all = {}
    /\ manualPages = {}
    /\ pdfs = {}
    /\ url = NoUrl
    /\ fetched = <<>>
    /\ resp = "none"
    /\ result = <<>>
    /\ StoreIdle
    /\ WalkerIdle
    /\ DbIdle
    /\ LibIdle
    /\ PoolIdle

\* the loop head without the test of seen: the URL is fetched whatever
CrawlTake_NoSeenCheck ==
    /\ cpc = "loop"
    /\ q # <<>> /\ Cardinality(seen) < maxPages
    /\ url' = Head(q)
    /\ q' = Tail(q)
    /\ seen' = seen \cup {Head(q)}
    /\ fetched' = Append(fetched, Head(q))
    /\ cpc' = "fetch"
    /\ UNCHANGED <<storeVars, walkerVars, dbVars, libVars, poolVars, maxPages, all, manualPages, pdfs,
                   resp, result>>

\* while (q.length && seen.size < maxPages): the next URL leaves the queue; one
\* seen before is dropped, another is marked seen and handed to http.html
CrawlTake ==
    /\ cpc = "loop"
    /\ q # <<>> /\ Cardinality(seen) < maxPages
    /\ url' = Head(q)
    /\ q' = Tail(q)
    /\ IF Head(q) \in seen
       THEN UNCHANGED <<seen, fetched, cpc>>
       ELSE /\ seen' = seen \cup {Head(q)}
            /\ fetched' = Append(fetched, Head(q))
            /\ cpc' = "fetch"
    /\ UNCHANGED <<storeVars, walkerVars, dbVars, libVars, poolVars, maxPages, all, manualPages, pdfs,
                   resp, result>>

\* a failed fetch ending the crawl
CrawlFetchFail_Fatal ==
    /\ cpc = "fetch"
    /\ resp' = "error"
    /\ cpc' = "failed"
    /\ UNCHANGED <<storeVars, walkerVars, dbVars, libVars, poolVars, maxPages, q, seen, all, manualPages,
                   pdfs, url, fetched, result>>

\* http.html rejects: catch { continue }
CrawlFetchFail ==
    /\ cpc = "fetch"
    /\ resp' = "error"
    /\ cpc' = "loop"
    /\ UNCHANGED <<storeVars, walkerVars, dbVars, libVars, poolVars, maxPages, q, seen, all, manualPages,
                   pdfs, url, fetched, result>>

\* http.html resolves with a page carrying links: its PDFs are collected, the
\* links that pass are queued unless seen, and recorded as discovered
CrawlFetchOk(links) ==
    /\ cpc = "fetch"
    /\ resp' = "page"
    /\ pdfs' = pdfs \cup PdfsOn(url, links)
    /\ manualPages' = IF PdfsOn(url, links) # {} THEN manualPages \cup {url} ELSE manualPages
    /\ LET nextLinks == NextLinks(url, links)
           NotSeen(n) == n \notin seen
       IN /\ q' = q \o SelectSeq(nextLinks, NotSeen)
          /\ all' = all \cup {nextLinks[i] : i \in DOMAIN nextLinks}
    /\ cpc' = "loop"
    /\ UNCHANGED <<storeVars, walkerVars, dbVars, libVars, poolVars, maxPages, seen, url, fetched, result>>

\* the loop is left: return { visitedCount: seen.size, ... }, the three lists
\* sorted and without duplicates (each as the set of its entries)
CrawlReturn ==
    /\ cpc = "loop"
    /\ ~(q # <<>> /\ Cardinality(seen) < maxPages)
    /\ result' = <<[visitedCount |-> Cardinality(seen), discovered |-> all,
                    manualPages |-> manualPages, pdfs |-> pdfs]>>
    /\ cpc' = "done"
    /\ UNCHANGED <<storeVars, walkerVars, dbVars, libVars, poolVars, maxPages, q, seen, all, manualPages,
                   pdfs, url, fetched, resp>>

CrawlNext ==
    \/ CrawlTake
    \/ CrawlFetchFail
    \/ \E links \in PageLinks : CrawlFetchOk(links)
    \/ CrawlReturn

CrawlSpec == CrawlInit /\ [][CrawlNext]_vars

\* every step of crawl() is taken in the end: http.html settles within the
\* request timeout and the rest is synchronous
CrawlLiveSpec == CrawlSpec /\ WF_vars(CrawlNext)

-----------------------------------------------------------------------------
(* C24 *)

\* C24: a failed page fetch does not end the crawl: the failed URL stays marked
\* visited, the failure adds nothing to the queue, the discovered links, the
\* manual pages or the PDFs, and the loop goes on with the next queued URL.
C24_FailedFetchNotFatal ==
    /\ [][(cpc = "fetch" /\ resp' = "error") =>
            /\ url \in seen'
            /\ q' = q /\ all' = all /\ manualPages' = manualPages /\ pdfs' = pdfs
            /\ cpc' = "loop"]_vars
    /\ [][(cpc = "loop" /\ resp = "error" /\ q # <<>> /\ Cardinality(seen) < maxPages) =>
            /\ url' = Head(q)
            /\ cpc' \in {"loop", "fetch"}]_vars

\* the second fetch failed and the third URL is being fetched
C24_Witness ==
    /\ cpc = "fetch" /\ resp = "error"
    /\ Len(fetched) = 3
    /\ fetched[2] \in seen

-----------------------------------------------------------------------------
(* C25 *)

\* C25: no URL is handed to the HTTP client twice, at most maxPages URLs are,
\* and crawl() returns, with a visitedCount of at most maxPages.
C25_FetchOnceAndTerminates ==
    /\ [](/\ \A i, j \in DOMAIN fetched : fetched[i] = fetched[j] => i = j
          /\ Len(fetched) <= maxPages
          /\ result # <<>> => result[1].visitedCount <= maxPages)
    /\ <>(cpc = "done" /\ result # <<>>)

\* the crawl returned at the cap with URLs still queued
C25_Witness ==
    /\ cpc = "done"
    /\ maxPages = MaxCrawlPages
    /\ result[1].visitedCount = maxPages
    /\ Len(fetched) = maxPages
    /\ q # <<>>

-----------------------------------------------------------------------------
(* C26 *)

\* the URL is one the crawler may follow: its host is allowed, its path holds
\* manual, item or catalog or ends in pdf, in any case, and is no image
InDomain(u) ==
    /\ u.host \in hostAllowlist
    /\ \/ \E i \in DOMAIN u.path : u.path[i] \in {"manual", "item", "Item", "catalog"}
       \/ Last(u.path) = ".pdf"
    /\ Last(u.path) \notin {".jpg", ".jpeg", ".png", ".PNG", ".gif", ".svg", ".webp"}

\* C26: every URL fetched other than the base URL has an allowed host, matches
\* an include pattern and matches no exclude pattern.
C26_StaysInDomain ==
    \A i \in DOMAIN fetched : fetched[i] # baseUrl => InDomain(fetched[i])

\* a link written with an upper-case host was followed under the allowed host
C26_Witness ==
    /\ Len(fetched) >= 2
    /\ fetched[2] = Url("a", <<"/", "item", "/", "3">>, <<>>)

-----------------------------------------------------------------------------
(* C27 *)

\* C27: a task whose row's stored path names no existing file, neither under
\* the storage root nor as a legacy path, and whose expected file is absent
\* calls the download; and when a task that downloaded returns true, the row
\* holds the root-relative path of the expected file.
C27_MissingFileDownloaded ==
    [][ \A i \in DOMAIN dtask \cap DOMAIN dtask' :
          LET r == rows[i] IN
          /\ (dtask[i] = "mkdir" /\ dtask'[i] # "mkdir"
                /\ ~Resolves(r) /\ ~existsSync(expectedOutPath(r))) =>
                 /\ dtask'[i] = "waitnet"
                 /\ r.manual_id \notin netCalls
                 /\ r.manual_id \in netCalls'
          /\ (dtask[i] = "persist" /\ dtask'[i] = "done" /\ changed' = changed + 1) =>
                 LocalPathOf(store', r.manual_id) = relFromAbs(expectedOutPath(r)) ]_vars

\* a row whose stored path named no file was downloaded and now holds the
\* expected path
C27_Witness ==
    \E i \in DOMAIN dtask :
        /\ dtask[i] = "done"
        /\ HasLocalPath(rows[i])
        /\ rows[i].pdf_local_path # relFromAbs(expectedOutPath(rows[i]))
        /\ rows[i].manual_id \in netCalls
        /\ changed >= 1
        /\ LocalPathOf(store, rows[i].manual_id) = relFromAbs(expectedOutPath(rows[i]))

-----------------------------------------------------------------------------
(* C28 *)

\* p is relative, does not climb out of the storage root, and names a file on disk
WrittenPathOk(p) ==
    /\ p.kind = "rel"
    /\ p.segs # <<>>
    /\ Head(p.segs) # ".."
    /\ absFromRel(p).segs \in files

\* C28: whenever a task of the orchestrator (healing, adopting or after its
\* download) or of the walker's download step has written a stored path, and
\* whenever a stored path changes at all, the new value is relative to the
\* storage root, has no leading '..' and names a file that is on disk in that
\* step.
C28_WrittenPathsInsideRoot ==
    [][ /\ \A id \in {store[k].manual_id : k \in DOMAIN store} :
             LocalPathOf(store', id) # LocalPathOf(store, id) =>
                 WrittenPathOk(LocalPathOf(store', id))
        /\ \A i \in DOMAIN dtask \cap DOMAIN dtask' :
             (dtask[i] \in {"heal", "adopt", "persist"} /\ dtask'[i] = "done" /\ ~dbFailed') =>
                 WrittenPathOk(LocalPathOf(store', rows[i].manual_id))
        /\ \A i \in DOMAIN wtask \cap DOMAIN wtask' :
             (wtask[i] = "persist" /\ wtask'[i] = "done") =>
                 WrittenPathOk(LocalPathOf(store', items[i].manualId)) ]_vars

\* a legacy path was replaced by its root-relative form without a download
C28_Witness ==
    \E i \in DOMAIN dtask :
        /\ dtask[i] = "done"
        /\ HasLocalPath(rows[i])
        /\ rows[i].manual_id \notin netCalls
        /\ LocalPathOf(store, rows[i].manual_id) # rows[i].pdf_local_path
        /\ LocalPathOf(store, rows[i].manual_id) = relFromAbs(LegacyAbs(rows[i].pdf_local_path))

-----------------------------------------------------------------------------
(* C29 *)

\* the download of task i was called in this run and its file is complete
DownloadSucceeded(i) ==
    /\ rows[i].manual_id \in netCalls
    /\ dtask[i] \in {"persist", "done"}
    /\ expectedOutPath(rows[i]).segs \in files \ partials

\* C29: in a run of the orchestrator in which no database call has raised,
\* every selected row has exactly one task and no two tasks the same row, a
\* download is called at most once per row, the run finishes only when every
\* task has returned, and the count of downloaded rows is the number of
\* returned tasks whose download succeeded.
C29_OneTaskPerCandidate ==
    /\ []((dpc \in {"running", "finished"} /\ ~dbFailed) =>
            /\ DOMAIN dtask = DOMAIN rows
            /\ \A i, j \in DOMAIN rows : rows[i].manual_id = rows[j].manual_id => i = j
            /\ dpc = "finished" => \A i \in DOMAIN dtask : dtask[i] = "done"
            /\ changed = Cardinality({i \in DOMAIN dtask :
                                        dtask[i] = "done" /\ DownloadSucceeded(i)})
            /\ done = Cardinality({i \in DOMAIN dtask : dtask[i] = "done"}))
    /\ [][ \A i \in DOMAIN dtask \cap DOMAIN dtask' :
             (dtask[i] # "waitnet" /\ dtask'[i] = "waitnet") =>
                 /\ dtask[i] = "mkdir"
                 /\ rows[i].manual_id \notin netCalls ]_vars

\* a run of more rows than the limit finished without a database error, one
\* download having succeeded and one having failed
C29_Witness ==
    /\ dpc = "finished" /\ ~dbFailed
    /\ Len(rows) > DB_DL_CONCURRENCY
    /\ changed = 1
    /\ \E i \in DOMAIN dtask :
         rows[i].manual_id \in netCalls /\ expectedOutPath(rows[i]).segs \in partials

-----------------------------------------------------------------------------
(* db.ts: withClient over the connection pool *)

\* the size of the pool (PGPOOL_MAX, kept small) and the calls made side by side
PoolMax == 2
MaxCalls == 3

Clients == 1..PoolMax
NoClient == 0

\* a call: where it stands, the client it holds, how often it released, its error
Call(pc, client, released, error) ==
    [pc |-> pc, client |-> client, released |-> released, error |-> error]

PoolInit ==
    /\ checkedOut = {}
    /\ wc = [k \in 1..MaxCalls |-> Call("idle", NoClient, 0, "none")]
    /\ StoreIdle
    /\ WalkerIdle
    /\ DbIdle
    /\ LibIdle
    /\ CrawlIdle

\* withClient(fn) is called: await pool.connect()
WcCall(k) ==
    /\ wc[k].pc \in {"idle", "returned", "raised"}
    /\ wc' = [wc EXCEPT ![k] = Call("connect", NoClient, 0, "none")]
    /\ UNCHANGED <<storeVars, walkerVars, dbVars, libVars, crawlVars, checkedOut>>

\* pool.connect() resolves with a client that was not checked out; fn(client)
\* is called
WcConnect(k) ==
    /\ wc[k].pc = "connect"
    /\ \E c \in Clients \ checkedOut :
         /\ checkedOut' = checkedOut \cup {c}
         /\ wc' = [wc EXCEPT ![k] = Call("fn", c, 0, "none")]
    /\ UNCHANGED <<storeVars, walkerVars, dbVars, libVars, crawlVars>>

\* pool.connect() rejects: withClient rejects, nothing was acquired
WcConnectFail(k) ==
    /\ wc[k].pc = "connect"
    /\ wc' = [wc EXCEPT ![k] = Call("raised", NoClient, 0, "connect")]
    /\ UNCHANGED <<storeVars, walkerVars, dbVars, libVars, crawlVars, checkedOut>>

\* mutant: the client is released after the callback returned only
WcSettle_NoFinally(k, ok) ==
    /\ wc[k].pc = "fn"
    /\ IF ok
       THEN /\ checkedOut' = checkedOut \ {wc[k].client}
            /\ wc' = [wc EXCEPT ![k] = Call("returned", NoClient, 1, "none")]
       ELSE /\ UNCHANGED checkedOut
            /\ wc' = [wc EXCEPT ![k] = Call("raised", wc[k].client, 0, "fn")]
    /\ UNCHANGED <<storeVars, walkerVars, dbVars, libVars, crawlVars>>

\* fn(client) settles: finally { client.release() }, then its value is returned
\* or its error raised again
WcSettle(k, ok) ==
    /\ wc[k].pc = "fn"
    /\ checkedOut' = checkedOut \ {wc[k].client}
    /\ wc' = [wc EXCEPT ![k] = Call(IF ok THEN "returned" ELSE "raised", NoClient,
                                     wc[k].released + 1, IF ok THEN "none" ELSE "fn")]
    /\ UNCHANGED <<storeVars, walkerVars, dbVars, libVars, crawlVars>>

PoolNext ==
    \E k \in 1..MaxCalls :
        \/ WcCall(k)
        \/ WcConnect(k)
        \/ WcConnectFail(k)
        \/ \E ok \in BOOLEAN : WcSettle(k, ok)

PoolSpec == PoolInit /\ [][PoolNext]_vars

-----------------------------------------------------------------------------
(* C30 *)

\* C30: a call holds its client while its callback runs and has released it
\* exactly once when it has returned or raised the callback's error (a call
\* whose connect failed acquired and released nothing); the step in which the
\* callback settles is the one that releases; so the clients checked out are
\* those of the calls whose callback runs, and none when every call is over.
C30_ClientReleasedOnce ==
    /\ [](/\ checkedOut = {wc[k].client : k \in {j \in DOMAIN wc : wc[j].pc = "fn"}}
          /\ \A k \in DOMAIN wc :
               /\ wc[k].pc = "fn" => wc[k].client \in Clients /\ wc[k].released = 0
               /\ wc[k].pc = "returned" => wc[k].released = 1
               /\ wc[k].pc = "raised" =>
                    wc[k].released = (IF wc[k].error = "fn" THEN 1 ELSE 0)
          /\ \A j, k \in DOMAIN wc :
               (wc[j].pc = "fn" /\ wc[k].pc = "fn" /\ wc[j].client = wc[k].client) => j = k
          /\ (\A k \in DOMAIN wc : wc[k].pc \in {"idle", "returned", "raised"}) =>
               checkedOut = {})
    /\ [][ \A k \in DOMAIN wc \cap DOMAIN wc' :
             (wc[k].pc = "fn" /\ wc'[k].pc # "fn") =>
                 /\ wc[k].client \notin checkedOut'
                 /\ wc'[k].pc \in {"returned", "raised"}
                 /\ wc'[k].pc = "raised" => wc'[k].error = "fn" ]_vars

\* every call is over, one returned and one raised its callback's error, and
\* the pool is whole
C30_Witness ==
    /\ wc # <<>>
    /\ \A k \in DOMAIN wc : wc[k].pc \in {"returned", "raised"}
    /\ \E k \in DOMAIN wc : wc[k].pc = "returned"
    /\ \E k \in DOMAIN wc : wc[k].pc = "raised" /\ wc[k].error = "fn" /\ wc[k].released = 1
    /\ checkedOut = {}

=============================================================================
